---- MODULE Spec2Model ----
(***************************************************************************)
(* A model of the product enrichment pipeline: ProductNormalizer,          *)
(* FeatureExtractor, IntentMapper and ContentOptimizer applied to one      *)
(* product record (Spec), KnowledgeGraphBuilder applied to a batch of      *)
(* enriched records (SpecKG), QueryMatcher applied to queries and a batch  *)
(* (SpecQM), the run of the orchestrator's main() (SpecMain), and the     *)
(* orchestrator's own enrichment and graph of a batch (SpecPipeline).      *)
(*                                                                         *)
(* Python strings are TLA+ strings; a character is a string of length 1    *)
(* (SubSeq(s, i, i)), so that lower(), strip(), "k in text" and the        *)
(* regular expressions are computed character by character.  A Python      *)
(* value is a tagged record:                                               *)
(*   [kind |-> "str",   s |-> "..."]       a str                           *)
(*   [kind |-> "none"]                     None                            *)
(*   [kind |-> "nan"]                      float("nan")                    *)
(*   [kind |-> "int",   n |-> 5]           an int                          *)
(*   [kind |-> "float", x |-> 2500]        a float, in units of 1/PriceScale*)
(*   [kind |-> "list",  items |-> <<..>>]  a list of str                   *)
(* A dict is a function from its keys to such values.                      *)
(***************************************************************************)
EXTENDS Integers, Sequences, FiniteSets, TLC

VARIABLES
    raw,            \* the raw record handed to normalize()
    product,        \* the record being enriched
    pc,             \* the position of the run
    fedback,        \* raw is a record normalize() returned
    products,       \* a batch of enriched records
    graph,          \* the knowledge graph built from the batch
    queries,        \* the queries matched against the batch
    similarity,     \* similarity[i]: the cosine similarity the encoder gives products[i]
    query_results,  \* the matches returned, one entry per query
    encoded,        \* the texts handed to encoder.encode, in call order
    enriched_products, \* the records process_pipeline has enriched so far
    run,            \* the entry point of the orchestrator, the sizes of its inputs, its loop index
    files           \* the output files the orchestrator has opened for writing

recordVars == <<raw, product, fedback>>
batchVars == <<products, graph, queries, similarity, query_results, encoded,
              enriched_products>>
mainVars == <<run, files>>
vars == <<raw, product, pc, fedback, products, graph, queries, similarity,
          query_results, encoded, enriched_products, run, files>>

(***************************************************************************)
(* Bounds of the model.                                                    *)
(***************************************************************************)
\* longest price string enumerated over PriceAlphabet
MaxPriceLen == 3
\* longest category string enumerated over CategoryAlphabet
MaxCatLen == 3
\* most fragments concatenated into an availability / text / url string
MaxFrags == 2

(***************************************************************************)
(* Python str operations.                                                  *)
(***************************************************************************)
Char(s, i) == SubSeq(s, i, i)

UpperLetters == "ABCDEFGHIJKLMNOPQRSTUVWXYZ"
LowerLetters == "abcdefghijklmnopqrstuvwxyz"
Digits == "0123456789"

CharsOf(s) == {Char(s, i) : i \in 1..Len(s)}

\* the index of character c in s, 0 when absent (str.find + 1)
IndexOf(c, s) ==
    IF \E i \in 1..Len(s) : Char(s, i) = c
    THEN CHOOSE i \in 1..Len(s) : Char(s, i) = c /\ \A j \in 1..(i - 1) : Char(s, j) # c
    ELSE 0

UpperSet == CharsOf(UpperLetters)
LowerSet == CharsOf(LowerLetters)
DigitSet == CharsOf(Digits)

\* the lowercase of each uppercase letter, and the reverse
ToLower == [c \in UpperSet |-> Char(LowerLetters, IndexOf(c, UpperLetters))]
ToUpper == [c \in LowerSet |-> Char(UpperLetters, IndexOf(c, LowerLetters))]

IsUpperChar(c) == c \in UpperSet
IsLowerChar(c) == c \in LowerSet
IsLetter(c) == IsUpperChar(c) \/ IsLowerChar(c)
IsDigit(c) == c \in DigitSet

LowerChar(c) == IF IsUpperChar(c) THEN ToLower[c] ELSE c
UpperChar(c) == IF IsLowerChar(c) THEN ToUpper[c] ELSE c

\* the characters str.strip() removes and the regex class \s matches
Whitespace == {" ", "\t", "\n", "\r", "\f"}

RECURSIVE ConcatRange(_, _, _)
\* pieces[lo] \o ... \o pieces[hi], by halves
ConcatRange(pieces, lo, hi) ==
    IF lo > hi THEN ""
    ELSE IF lo = hi THEN pieces[lo]
    ELSE LET mid == (lo + hi) \div 2
         IN  ConcatRange(pieces, lo, mid) \o ConcatRange(pieces, mid + 1, hi)

\* "".join(pieces)
ConcatAll(pieces) == ConcatRange(pieces, 1, Len(pieces))

\* str.lower()
Lower(s) == ConcatAll([i \in 1..Len(s) |-> LowerChar(Char(s, i))])

\* str.upper()
Upper(s) == ConcatAll([i \in 1..Len(s) |-> UpperChar(Char(s, i))])

\* str.title(): a letter after a letter is lowercased, any other letter uppercased
Title(s) ==
    ConcatAll([i \in 1..Len(s) |->
                 IF i > 1 /\ IsLetter(Char(s, i - 1))
                 THEN LowerChar(Char(s, i))
                 ELSE UpperChar(Char(s, i))])

\* str.strip(chars)
StripChars(s, chars) ==
    LET keep == {i \in 1..Len(s) : Char(s, i) \notin chars}
    IN  IF keep = {} THEN ""
        ELSE LET lo == CHOOSE i \in keep : \A j \in keep : i <= j
                 hi == CHOOSE i \in keep : \A j \in keep : j <= i
             IN  SubSeq(s, lo, hi)

\* str.strip()
Strip(s) == StripChars(s, Whitespace)

\* k in t
IsSubstring(k, t) ==
    \E i \in 1..(Len(t) - Len(k) + 1) : SubSeq(t, i, i + Len(k) - 1) = k

\* re.sub(r"[class]+", rep, s): every maximal run of class characters becomes rep
SubRuns(s, class, rep) ==
    ConcatAll([i \in 1..Len(s) |->
                 IF Char(s, i) \notin class THEN Char(s, i)
                 ELSE IF i > 1 /\ Char(s, i - 1) \in class THEN ""
                 ELSE rep])

\* str.replace(old, new) for a one-character old
Replace(s, old, new) ==
    ConcatAll([i \in 1..Len(s) |-> IF Char(s, i) = old THEN new ELSE Char(s, i)])

\* s.split(sep)[0] for a one-character sep
SplitFirst(s, sep) ==
    IF IndexOf(sep, s) = 0 THEN s ELSE SubSeq(s, 1, IndexOf(sep, s) - 1)

RECURSIVE JoinFrom(_, _, _)
JoinFrom(parts, i, sep) ==
    IF i > Len(parts) THEN ""
    ELSE IF i = Len(parts) THEN parts[i]
    ELSE parts[i] \o sep \o JoinFrom(parts, i + 1, sep)

\* sep.join(parts)
Join(parts, sep) == JoinFrom(parts, 1, sep)

RECURSIVE Pow10(_)
Pow10(n) == IF n <= 0 THEN 1 ELSE 10 * Pow10(n - 1)

RECURSIVE NatOfFrom(_, _, _)
NatOfFrom(s, i, acc) ==
    IF i > Len(s) THEN acc
    ELSE NatOfFrom(s, i + 1, 10 * acc + (IndexOf(Char(s, i), Digits) - 1))

\* the value of a string of decimal digits ("" is 0)
NatOf(s) == NatOfFrom(s, 1, 0)

RECURSIVE NatStr(_)
NatStr(n) ==
    IF n < 10 THEN Char(Digits, n + 1)
    ELSE NatStr(n \div 10) \o Char(Digits, (n % 10) + 1)

\* str(n) for an int
IntStr(n) == IF n < 0 THEN "-" \o NatStr(-n) ELSE NatStr(n)

(***************************************************************************)
(* Python values.                                                          *)
(***************************************************************************)
StrV(s) == [kind |-> "str", s |-> s]
NoneV == [kind |-> "none"]
NaNV == [kind |-> "nan"]
IntV(n) == [kind |-> "int", n |-> n]
FloatV(x) == [kind |-> "float", x |-> x]
ListV(items) == [kind |-> "list", items |-> items]

\* one float unit is 1/PriceScale: every decimal the model parses is exact
PriceScale == Pow10(MaxPriceLen)

RECURSIVE PadStr(_, _)
\* the last width decimal digits of f, zero-padded
PadStr(f, width) ==
    IF width <= 0 THEN "" ELSE PadStr(f \div 10, width - 1) \o Char(Digits, (f % 10) + 1)

RECURSIVE FracStr(_, _)
\* the fraction digits of a float's repr: at least one, no trailing zeros
FracStr(f, width) ==
    IF width <= 1 THEN PadStr(f, 1)
    ELSE IF f % 10 = 0 THEN FracStr(f \div 10, width - 1)
    ELSE PadStr(f, width)

\* str(x) for a float
FloatStr(x) ==
    LET a == IF x < 0 THEN -x ELSE x
    IN  (IF x < 0 THEN "-" ELSE "") \o NatStr(a \div PriceScale) \o "."
            \o FracStr(a % PriceScale, MaxPriceLen)

\* repr(s) of a str without quotes or backslashes
ReprStr(s) == "'" \o s \o "'"

\* str(v)
Str(v) ==
    CASE v.kind = "str" -> v.s
      [] v.kind = "none" -> "None"
      [] v.kind = "nan" -> "nan"
      [] v.kind = "int" -> IntStr(v.n)
      [] v.kind = "float" -> FloatStr(v.x)
      [] v.kind = "list" ->
            "[" \o Join([i \in 1..Len(v.items) |-> ReprStr(v.items[i])], ", ") \o "]"

\* bool(v)
Truthy(v) ==
    CASE v.kind = "str" -> v.s # ""
      [] v.kind = "none" -> FALSE
      [] v.kind = "nan" -> TRUE
      [] v.kind = "int" -> v.n # 0
      [] v.kind = "float" -> v.x # 0
      [] v.kind = "list" -> v.items # <<>>

\* dict.get(k, default)
Get(d, k, default) == IF k \in DOMAIN d THEN d[k] ELSE default

\* the outcome of a call: a returned value or a raised exception
Ok(v) == [ok |-> TRUE, val |-> v]
Raise(e) == [ok |-> FALSE, exc |-> e]

\* bool(pd.isna(v)): the truth value of a scalar's flag or of a list's array of
\* flags.  An array of two or more flags has no truth value (ValueError); the
\* truth value of an empty array is False or a ValueError, by numpy's version.
PdIsNaTruth(v) ==
    CASE v.kind \in {"none", "nan"} -> {"True"}
      [] v.kind \in {"str", "int", "float"} -> {"False"}
      [] v.kind = "list" ->
            IF Len(v.items) = 0 THEN {"False", "ValueError"}
            ELSE IF Len(v.items) = 1 THEN {"False"}
            ELSE {"ValueError"}

(***************************************************************************)
(* ProductNormalizer (pipeline_components/normalizer.py).                  *)
(***************************************************************************)
max_title_length == 150
max_description_length == 500
\* NormalizationConfig.default_price, 0.0
default_price == 0
category_separator == "/"

\* BRAND_MAPPINGS, in dict order
BRAND_MAPPINGS ==
    << [brand |-> "h&m", variations |-> <<"h&m", "h & m", "h and m", "hm">>],
       [brand |-> "oura", variations |-> <<"oura", "oura ring", "oura rings">>],
       [brand |-> "whoop", variations |-> <<"whoop", "whoop strap", "whoop band">>] >>

\* AVAILABILITY_MAPPINGS, in dict order
AVAILABILITY_MAPPINGS ==
    << [status |-> "in_stock",
        variations |-> <<"in stock", "instock", "available", "in_stock">>],
       [status |-> "out_of_stock",
        variations |-> <<"out of stock", "outofstock", "unavailable",
                         "not available", "out_of_stock">>] >>

\* the keys normalize() assigns
NormalizedKeys ==
    {"id", "brand", "category", "price", "availability", "image_link",
     "title", "description"}

\* _normalize_id: product_id if present, else id, else ""; str() and strip()
_normalize_id(p) ==
    LET product_id == Get(p, "product_id", Get(p, "id", StrV("")))
    IN  Ok(StrV(Strip(Str(product_id))))

\* the first (normalized_brand, variations) item whose variations hold brand_lower
BrandMatches(brand_lower) ==
    {i \in 1..Len(BRAND_MAPPINGS) :
        \E j \in 1..Len(BRAND_MAPPINGS[i].variations) :
            Lower(BRAND_MAPPINGS[i].variations[j]) = brand_lower}

\* _normalize_brand
_normalize_brand(brand) ==
    IF ~Truthy(brand) THEN Ok(StrV(""))
    ELSE IF brand.kind # "str" THEN Raise("AttributeError")
    ELSE LET brand_lower == Strip(Lower(brand.s))
             hits == BrandMatches(brand_lower)
         IN  IF hits # {}
             THEN Ok(StrV(Upper(BRAND_MAPPINGS[CHOOSE i \in hits : \A j \in hits : i <= j].brand)))
             ELSE Ok(StrV(Title(Strip(brand.s))))

\* _normalize_category without its second re.sub, which collapses "/" runs
_normalize_category_uncollapsed(category) ==
    IF ~Truthy(category) THEN Ok(StrV(""))
    ELSE IF category.kind # "str" THEN Raise("AttributeError")
    ELSE LET lowered == Strip(Lower(category.s))
             replaced == SubRuns(lowered, {">", ","} \cup Whitespace, category_separator)
         IN  Ok(StrV(StripChars(replaced, {category_separator})))

\* _normalize_category
_normalize_category(category) ==
    IF ~Truthy(category) THEN Ok(StrV(""))
    ELSE IF category.kind # "str" THEN Raise("AttributeError")
    ELSE LET lowered == Strip(Lower(category.s))
             replaced == SubRuns(lowered, {">", ","} \cup Whitespace, category_separator)
             collapsed == SubRuns(replaced, {"/"}, category_separator)
         IN  Ok(StrV(StripChars(collapsed, {category_separator})))

\* re.search(r"[class]+", s).group(): the first maximal run, "" when there is none
FirstRun(s, class) ==
    LET hits == {i \in 1..Len(s) : Char(s, i) \in class}
    IN  IF hits = {} THEN ""
        ELSE LET lo == CHOOSE i \in hits : \A j \in hits : i <= j
                 ends == {j \in lo..Len(s) : \A k \in lo..j : Char(s, k) \in class}
                 hi == CHOOSE j \in ends : \A k \in ends : k <= j
             IN  SubSeq(s, lo, hi)

\* float(s) accepts a run of digits and dots that has one dot at most and a digit
FloatParses(s) ==
    /\ Cardinality({i \in 1..Len(s) : Char(s, i) = "."}) <= 1
    /\ \E i \in 1..Len(s) : IsDigit(Char(s, i))

\* float(s) of such a run, in units of 1/PriceScale
FloatOf(s) ==
    LET dot == IndexOf(".", s)
        whole == IF dot = 0 THEN s ELSE SubSeq(s, 1, dot - 1)
        frac == IF dot = 0 THEN "" ELSE SubSeq(s, dot + 1, Len(s))
    IN  NatOf(whole) * PriceScale + (NatOf(frac) * PriceScale) \div Pow10(Len(frac))

\* max(a, b)
Max(a, b) == IF a >= b THEN a ELSE b

\* _normalize_price after its first test, without any max(..., 0)
PriceOfPresent_unclamped(price) ==
    IF price.kind = "str" /\ price.s = "" THEN FloatV(default_price)
    ELSE IF price.kind = "int" THEN FloatV(price.n * PriceScale)
    ELSE IF price.kind = "float" THEN FloatV(price.x)
    ELSE LET price_str == Str(price)
             price_match == FirstRun(price_str, DigitSet \cup {"."})
         IN  IF price_match # "" /\ FloatParses(price_match)
             THEN FloatV(FloatOf(price_match))
             ELSE FloatV(default_price)

\* _normalize_price after its first test: price is not NA
PriceOfPresent(price) ==
    IF price.kind = "str" /\ price.s = "" THEN FloatV(default_price)
    ELSE IF price.kind = "int" THEN FloatV(Max(price.n * PriceScale, 0))
    ELSE IF price.kind = "float" THEN FloatV(Max(price.x, 0))
    ELSE LET price_str == Str(price)
             price_match == FirstRun(price_str, DigitSet \cup {"."})
         IN  IF price_match # "" /\ FloatParses(price_match)
             THEN FloatV(Max(FloatOf(price_match), 0))
             ELSE FloatV(default_price)

\* _normalize_price: the outcomes of the call, one for each truth value
\* pd.isna(price) can have
_normalize_price(price) ==
    { IF t = "ValueError" THEN Raise("ValueError")
      ELSE IF t = "True" THEN Ok(FloatV(default_price))
      ELSE Ok(PriceOfPresent(price)) : t \in PdIsNaTruth(price) }

\* _normalize_availability with in_stock as the status of an unmatched value
_normalize_availability_default_in_stock(availability) ==
    IF ~Truthy(availability) THEN Ok(StrV("out_of_stock"))
    ELSE IF availability.kind # "str" THEN Raise("AttributeError")
    ELSE LET availability_lower == Replace(Strip(Lower(availability.s)), " ", "")
             hits == {i \in 1..Len(AVAILABILITY_MAPPINGS) :
                        \E j \in 1..Len(AVAILABILITY_MAPPINGS[i].variations) :
                            IsSubstring(Replace(AVAILABILITY_MAPPINGS[i].variations[j], " ", ""),
                                        availability_lower)}
         IN  IF hits # {}
             THEN Ok(StrV(AVAILABILITY_MAPPINGS[CHOOSE i \in hits : \A j \in hits : i <= j].status))
             ELSE Ok(StrV("in_stock"))

\* _normalize_availability
_normalize_availability(availability) ==
    IF ~Truthy(availability) THEN Ok(StrV("out_of_stock"))
    ELSE IF availability.kind # "str" THEN Raise("AttributeError")
    ELSE LET availability_lower == Replace(Strip(Lower(availability.s)), " ", "")
             hits == {i \in 1..Len(AVAILABILITY_MAPPINGS) :
                        \E j \in 1..Len(AVAILABILITY_MAPPINGS[i].variations) :
                            IsSubstring(Replace(AVAILABILITY_MAPPINGS[i].variations[j], " ", ""),
                                        availability_lower)}
         IN  IF hits # {}
             THEN Ok(StrV(AVAILABILITY_MAPPINGS[CHOOSE i \in hits : \A j \in hits : i <= j].status))
             ELSE Ok(StrV("out_of_stock"))

\* url_pattern.match: ^(https?://|www\.)[^\s/$.?#].[^\s]*$ with re.IGNORECASE
UrlMatches(s) ==
    \E prefix \in {"http://", "https://", "www."} :
        LET n == Len(prefix)
        IN  /\ Len(s) >= n + 2
            /\ Lower(SubSeq(s, 1, n)) = prefix
            /\ Char(s, n + 1) \notin (Whitespace \cup {"/", "$", ".", "?", "#"})
            /\ Char(s, n + 2) # "\n"
            /\ \A i \in (n + 3)..Len(s) : Char(s, i) \notin Whitespace

\* _normalize_image_link
_normalize_image_link(image_urls) ==
    IF ~Truthy(image_urls) THEN Ok(StrV(""))
    ELSE IF "ValueError" \in PdIsNaTruth(image_urls) THEN Raise("ValueError")
    ELSE IF "True" \in PdIsNaTruth(image_urls) THEN Ok(StrV(""))
    ELSE LET stripped == Strip(Str(image_urls))
             image_str == IF IsSubstring("|", stripped)
                          THEN Strip(SplitFirst(stripped, "|"))
                          ELSE stripped
         IN  IF image_str # "" /\ UrlMatches(image_str)
             THEN Ok(StrV(image_str))
             ELSE Ok(StrV(""))

\* text[:max_length]: the cut without the three dots
Truncate_without_ellipsis(text, max_length) ==
    IF Len(text) > max_length THEN SubSeq(text, 1, max_length) ELSE text

\* text[:max_length - 3] + "..." when text is longer than max_length
Truncate(text, max_length) ==
    IF Len(text) > max_length THEN SubSeq(text, 1, max_length - 3) \o "..." ELSE text

\* _normalize_text
_normalize_text(text, max_length) ==
    IF ~Truthy(text) THEN Ok(StrV(""))
    ELSE Ok(StrV(Truncate(SubRuns(Strip(Str(text)), Whitespace, " "), max_length)))

\* the keys of normalize()'s result without the del of image_urls
NormalizedDomain_keeping_image_urls(p) == (DOMAIN p) \cup NormalizedKeys

\* the keys of normalize()'s result: those of the copy and those assigned,
\* minus image_urls, which is deleted
NormalizedDomain(p) == ((DOMAIN p) \cup NormalizedKeys) \ {"image_urls"}

\* the first exception raised by a sequence of outcomes, in order
FirstRaised(results) ==
    results[CHOOSE i \in 1..Len(results) :
                ~results[i].ok /\ \A j \in 1..(i - 1) : results[j].ok]

\* normalize(product): the outcomes of the call.  The fields are normalized in
\* the order of the assignments; the copy keeps every other key of the input,
\* and image_urls is deleted at the end.
normalize(p) ==
    { LET id == _normalize_id(p)
          brand == _normalize_brand(Get(p, "brand", StrV("")))
          category == _normalize_category(Get(p, "category", StrV("")))
          availability == _normalize_availability(Get(p, "availability", StrV("")))
          image_link == _normalize_image_link(Get(p, "image_urls", StrV("")))
          title == _normalize_text(Get(p, "title", StrV("")), max_title_length)
          description ==
              _normalize_text(Get(p, "description", StrV("")), max_description_length)
          results == <<id, brand, category, price, availability, image_link,
                       title, description>>
      IN  IF \E i \in 1..Len(results) : ~results[i].ok
          THEN Raise(FirstRaised(results).exc)
          ELSE Ok([k \in NormalizedDomain(p) |->
                     CASE k = "id" -> id.val
                       [] k = "brand" -> brand.val
                       [] k = "category" -> category.val
                       [] k = "price" -> price.val
                       [] k = "availability" -> availability.val
                       [] k = "image_link" -> image_link.val
                       [] k = "title" -> title.val
                       [] k = "description" -> description.val
                       [] OTHER -> p[k]])
      : price \in _normalize_price(Get(p, "price", NoneV)) }

(***************************************************************************)
(* FeatureExtractor (pipeline_components/feature_extractor.py).            *)
(***************************************************************************)
materials == <<"cotton", "organic", "denim", "wool">>
colors == <<"white", "blue", "black">>

\* f"{product.get('title', '')} {product.get('description', '')}".lower()
ProductText(p) ==
    Lower(Str(Get(p, "title", StrV(""))) \o " " \o Str(Get(p, "description", StrV(""))))

\* FeatureExtractor.extract without the .lower() of the text
extract_case_sensitive(p) ==
    LET text == Str(Get(p, "title", StrV(""))) \o " " \o Str(Get(p, "description", StrV("")))
        InText(k) == IsSubstring(k, text)
        found_materials == SelectSeq(materials, InText)
        found_style == (IF InText("slim") THEN <<"slim_fit">> ELSE <<>>)
                          \o (IF InText("stretch") THEN <<"stretchy">> ELSE <<>>)
        found_colors == SelectSeq(colors, InText)
    IN  found_materials \o found_style
            \o [i \in 1..Len(found_colors) |-> found_colors[i] \o "_color"]

\* FeatureExtractor.extract: the list of feature tags, in the order appended
extract(p) ==
    LET text == ProductText(p)
        InText(k) == IsSubstring(k, text)
        found_materials == SelectSeq(materials, InText)
        found_style == (IF InText("slim") THEN <<"slim_fit">> ELSE <<>>)
                          \o (IF InText("stretch") THEN <<"stretchy">> ELSE <<>>)
        found_colors == SelectSeq(colors, InText)
    IN  found_materials \o found_style
            \o [i \in 1..Len(found_colors) |-> found_colors[i] \o "_color"]

(***************************************************************************)
(* IntentMapper (pipeline_components/intent_mapper.py).                    *)
(***************************************************************************)
\* IntentMapper.intent_keywords, in dict order
intent_keywords ==
    << [intent |-> "affordable",
        keywords |-> <<"cheap", "budget", "value", "affordable", "under">>],
       [intent |-> "summer",
        keywords |-> <<"summer", "light", "breathable", "cotton", "warm weather">>],
       [intent |-> "eco_friendly",
        keywords |-> <<"organic", "eco", "sustainable", "green">>],
       [intent |-> "casual",
        keywords |-> <<"casual", "everyday", "basic", "comfortable", "daily">>],
       [intent |-> "comfort",
        keywords |-> <<"comfortable", "soft", "cozy", "warm", "stretch">>] >>

\* IntentMapper.budget_threshold, 30.0
budget_threshold == 30

\* ord(c), for the characters of a tag: digits, letters, "_", " " and "-"
Ord(c) ==
    IF IsDigit(c) THEN 47 + IndexOf(c, Digits)
    ELSE IF IsUpperChar(c) THEN 64 + IndexOf(c, UpperLetters)
    ELSE IF IsLowerChar(c) THEN 96 + IndexOf(c, LowerLetters)
    ELSE IF c = "_" THEN 95
    ELSE IF c = "-" THEN 45
    ELSE 32

\* a < b for two str: by the first differing code point, a proper prefix first
StrLess(a, b) ==
    \E i \in 1..(Len(a) + 1) :
        /\ i <= Len(b)
        /\ SubSeq(a, 1, i - 1) = SubSeq(b, 1, i - 1)
        /\ (i > Len(a) \/ Ord(Char(a, i)) < Ord(Char(b, i)))

RECURSIVE ReverseSortedList(_)
\* list(S) left in an order that is not the ascending one
ReverseSortedList(S) ==
    IF S = {} THEN <<>>
    ELSE LET least == CHOOSE x \in S : \A y \in S \ {x} : StrLess(x, y)
         IN  ReverseSortedList(S \ {least}) \o <<least>>

RECURSIVE SortedList(_)
\* sorted(list(S)) for a set S of str
SortedList(S) ==
    IF S = {} THEN <<>>
    ELSE LET least == CHOOSE x \in S : \A y \in S \ {x} : StrLess(x, y)
         IN  <<least>> \o SortedList(S \ {least})

\* _extract_text_intents
_extract_text_intents(text) ==
    { intent_keywords[i].intent : i \in
        {i \in 1..Len(intent_keywords) :
            \E j \in 1..Len(intent_keywords[i].keywords) :
                IsSubstring(intent_keywords[i].keywords[j], text)} }

\* _extract_price_intents without the lower limit of the price
_extract_price_intents_no_lower_limit(price) ==
    IF price.x < budget_threshold * PriceScale
    THEN {"budget_friendly"}
    ELSE {}

\* _extract_price_intents, for a float price
_extract_price_intents(price) ==
    IF price.x > 0 /\ price.x < budget_threshold * PriceScale
    THEN {"budget_friendly"}
    ELSE {}

\* _extract_category_intents
_extract_category_intents(category) ==
    LET category_lower == Lower(category)
    IN  IF IsSubstring("dress", category_lower) THEN {"dress_shopping"}
        ELSE IF IsSubstring("hoodie", category_lower) THEN {"cozy_wear"}
        ELSE {}

\* IntentMapper.extract_intents
extract_intents(p) ==
    LET text == ProductText(p)
        intents == _extract_text_intents(text)
                      \cup _extract_price_intents(Get(p, "price", FloatV(0)))
                      \cup _extract_category_intents(Str(Get(p, "category", StrV(""))))
    IN  SortedList(intents)

(***************************************************************************)
(* ContentOptimizer (pipeline_components/content_optimizer.py).            *)
(***************************************************************************)
\* ContentOptimizer.max_title_length and max_description_length
optimizer_max_title_length == 150
optimizer_max_description_length == 500

\* product.get(key, []) for a list-valued key
GetList(p, k) == IF k \in DOMAIN p THEN p[k].items ELSE <<>>

\* x in xs, for a list xs
InList(x, xs) == \E i \in 1..Len(xs) : xs[i] = x

\* xs[:n]
Take(xs, n) == SubSeq(xs, 1, IF Len(xs) < n THEN Len(xs) ELSE n)

\* _extract_audience with "men" tested before "women"
_extract_audience_men_first(category) ==
    LET category_lower == Lower(category)
    IN  IF IsSubstring("men", category_lower) THEN "Men"
        ELSE IF IsSubstring("women", category_lower) THEN "Women"
        ELSE IF IsSubstring("kids", category_lower) THEN "Kids"
        ELSE ""

\* _extract_audience
_extract_audience(category) ==
    LET category_lower == Lower(category)
    IN  IF IsSubstring("women", category_lower) THEN "Women"
        ELSE IF IsSubstring("men", category_lower) THEN "Men"
        ELSE IF IsSubstring("kids", category_lower) THEN "Kids"
        ELSE ""

\* the components list of _create_optimized_title without the Eco-Friendly prefix
TitleComponents_without_prefix(p) ==
    LET brand == Str(Get(p, "brand", StrV("")))
        audience == _extract_audience(Str(Get(p, "category", StrV(""))))
        title == Str(Get(p, "title", StrV("")))
    IN  (IF brand # "" THEN <<brand>> ELSE <<>>)
            \o (IF audience # "" THEN <<audience>> ELSE <<>>)
            \o (IF title # "" THEN <<title>> ELSE <<>>)

\* the components list of _create_optimized_title
TitleComponents(p) ==
    LET brand == Str(Get(p, "brand", StrV("")))
        audience == _extract_audience(Str(Get(p, "category", StrV(""))))
        title == Str(Get(p, "title", StrV("")))
    IN  (IF InList("organic", GetList(p, "features")) THEN <<"Eco-Friendly">> ELSE <<>>)
            \o (IF brand # "" THEN <<brand>> ELSE <<>>)
            \o (IF audience # "" THEN <<audience>> ELSE <<>>)
            \o (IF title # "" THEN <<title>> ELSE <<>>)

\* _create_optimized_title
_create_optimized_title(p) ==
    Truncate(Strip(Join(TitleComponents(p), " ")), optimizer_max_title_length)

\* [x.replace("_", " ") for x in xs]
Readable(xs) == [i \in 1..Len(xs) |-> Replace(xs[i], "_", " ")]

\* the components list of _create_optimized_description
DescriptionComponents(p) ==
    LET original_desc == Str(Get(p, "description", StrV("")))
        intents == GetList(p, "intents")
        features == GetList(p, "features")
    IN  (IF original_desc # "" THEN <<original_desc>> ELSE <<>>)
            \o (IF intents # <<>>
                THEN <<"Perfect for " \o Join(Readable(Take(intents, 2)), ", ")>>
                ELSE <<>>)
            \o (IF features # <<>>
                THEN <<"Features: " \o Join(Readable(Take(features, 3)), ", ")>>
                ELSE <<>>)

\* _create_optimized_description
_create_optimized_description(p) ==
    Truncate(Strip(Join(DescriptionComponents(p), ". ")), optimizer_max_description_length)

\* d[k] = v on a dict
Put(d, k, v) == [x \in (DOMAIN d) \cup {k} |-> IF x = k THEN v ELSE d[x]]

\* ContentOptimizer.optimize_content: the title is stored before the description
\* is built
optimize_content(p) ==
    LET titled == Put(p, "ai_optimized_title", StrV(_create_optimized_title(p)))
    IN  Put(titled, "ai_optimized_description",
            StrV(_create_optimized_description(titled)))

(***************************************************************************)
(* The raw records the model feeds to the pipeline.  Each family varies    *)
(* one field of a base record over a bounded set of values and leaves the  *)
(* other fields as they are.                                               *)
(***************************************************************************)
RECURSIVE Concats(_, _)
\* the concatenations of at most n pieces
Concats(pieces, n) ==
    IF n <= 0 THEN {""}
    ELSE LET shorter == Concats(pieces, n - 1)
         IN  shorter \cup {s \o c : s \in shorter, c \in pieces}

\* n copies of c
RECURSIVE Repeat(_, _)
Repeat(c, n) == IF n <= 0 THEN "" ELSE c \o Repeat(c, n - 1)

\* values of a type normalize() does not expect
OddValues ==
    {NoneV, NaNV, IntV(0), IntV(7), StrV(""), ListV(<<>>), ListV(<<"5">>),
     ListV(<<"a", "b">>)}

\* a raw record: a product of the catalogue
BaseRecord ==
    [title |-> StrV("Organic Cotton Slim Jeans"),
     description |-> StrV("Comfortable everyday wear"),
     price |-> StrV("25.00"),
     category |-> StrV("Men > Jeans"),
     availability |-> StrV("In Stock")]

\* BaseRecord without key k
Without(d, k) == [x \in (DOMAIN d) \ {k} |-> d[x]]

\* BaseRecord with key k absent, or set to each of the values
Family(k, values) == {Without(BaseRecord, k)} \cup {Put(BaseRecord, k, v) : v \in values}

PriceAlphabet == {"2", "0", ".", "-", "$"}

\* a float of n hundredths
Hundredths(n) == FloatV((n * PriceScale) \div 100)

RawPrices ==
    {StrV(s) : s \in Concats(PriceAlphabet, MaxPriceLen)}
        \cup {StrV(s) : s \in {"29.99", "30.0", "$19.99 USD", "1.2.3", "free", " "}}
        \cup {IntV(n) : n \in {-5, 29, 30, 45}}
        \cup {Hundredths(n) : n \in {-50, 0, 1, 2999, 3000, 3001}}
        \cup OddValues

CategoryAlphabet == {"A", ">", ",", " ", "/"}

RawCategories ==
    {StrV(s) : s \in Concats(CategoryAlphabet, MaxCatLen)}
        \cup {StrV(s) : s \in {"Clothes > Women, Dresses", "clothes>women>dresses",
                               "Mens Tops", "Kids / Hoodies", "\tShoes,\n,Kids ",
                               "dress hoodie", "Unisex"}}
        \cup OddValues

AvailabilityPieces == {"in", " ", "stock", "out of ", "Available", "un", "soon", "_"}

\* every variant of AVAILABILITY_MAPPINGS
AvailabilityVariants ==
    UNION {{AVAILABILITY_MAPPINGS[i].variations[j] :
                j \in 1..Len(AVAILABILITY_MAPPINGS[i].variations)} :
           i \in 1..Len(AVAILABILITY_MAPPINGS)}

RawAvailabilities ==
    {StrV(s) : s \in Concats(AvailabilityPieces, MaxFrags)}
        \cup {StrV(s) : s \in AvailabilityVariants}
        \cup {StrV(s) : s \in {"soon", " In  Stock ", "Not Available", "OUT OF STOCK"}}
        \cup OddValues

TextPieces == {"Organic", "cotton", "slim", "stretch", "warm", " weather", "blue", "Dec"}

\* every trigger of FeatureExtractor and keyword of IntentMapper
TriggerWords ==
    {materials[i] : i \in 1..Len(materials)} \cup {colors[i] : i \in 1..Len(colors)}
        \cup {"slim", "stretch"}
        \cup UNION {{intent_keywords[i].keywords[j] :
                        j \in 1..Len(intent_keywords[i].keywords)} :
                    i \in 1..Len(intent_keywords)}

RawTitles ==
    {StrV(s) : s \in Concats(TextPieces, MaxFrags)}
        \cup {StrV(s) : s \in TriggerWords}
        \cup {StrV(Repeat("Wool ", 31)), StrV("  Plain \t Tee \n"), StrV("Thunder")}
        \cup OddValues

RawDescriptions ==
    {StrV(s) : s \in {"weather", "Soft denim, black", "under budget",
                      Repeat("Daily basic. ", 39)}}
        \cup OddValues

BrandPieces == {"h&m", "H & M", "h and m", "HM", "oura", " ring", " ", "acme"}

RawBrands ==
    {StrV(s) : s \in Concats(BrandPieces, MaxFrags)}
        \cup {StrV(s) : s \in {"whoop strap", "WHOOP BAND", "o'neil"}}
        \cup OddValues

UrlPieces == {"http://", "https://", "HTTP://", "www.", "a", "b.c/d", " ", "|"}

RawImageUrls ==
    {StrV(s) : s \in Concats(UrlPieces, MaxFrags)}
        \cup {StrV(s) : s \in {"https://x.io/a.jpg|https://x.io/b.jpg",
                               " x.io/a.jpg | https://x.io/b.jpg", "http://a b",
                               "ftp://a.b", "http://./x", "www.#x"}}
        \cup OddValues

RawIds == {StrV("P1"), StrV(" P 2 "), StrV(""), NoneV, NaNV, IntV(7), ListV(<<"a">>)}

\* records with product_id and id, each absent or set
IdRecords ==
    {Without(BaseRecord, "id")}
        \cup {Put(BaseRecord, "id", v) : v \in RawIds}
        \cup {Put(BaseRecord, "product_id", v) : v \in RawIds}
        \cup {Put(Put(BaseRecord, "id", v), "product_id", w) : v \in RawIds, w \in RawIds}

\* records that have an image_link key already, with and without image_urls
ImageLinkRecords ==
    {Put(BaseRecord, "image_link", StrV(s)) : s \in {"", "https://x.io/old.jpg"}}
        \cup {Put(Put(BaseRecord, "image_link", StrV("https://x.io/old.jpg")),
                  "image_urls", StrV(s)) : s \in {"", "www.ab", "nothing"}}

\* records over the fields the optimized title and the intents are built from
EnrichmentRecords ==
    {[title |-> StrV(t), description |-> StrV("Everyday wear"), brand |-> StrV(b),
      category |-> StrV(c), price |-> p, availability |-> StrV("available")] :
        t \in {"", "Organic Tee", "Tee", Repeat("Tee ", 37)},
        b \in {"", "hm", "acme"},
        c \in {"", "Women", "Men", "Kids", "Women > Men", "Kids, Women", "Kids Men",
               "Unisex Dresses", "Hoodies"},
        p \in {Hundredths(0), Hundredths(2999), Hundredths(3000)}}

\* a record whose title and description are both longer than the caps
LongRecord ==
    Put(Put(BaseRecord, "title", StrV(Repeat("Wool ", 31))),
        "description", StrV(Repeat("Daily basic. ", 39)))

RawRecords ==
    Family("price", RawPrices)
        \cup Family("category", RawCategories)
        \cup Family("availability", RawAvailabilities)
        \cup Family("title", RawTitles)
        \cup Family("description", RawDescriptions)
        \cup Family("brand", RawBrands)
        \cup Family("image_urls", RawImageUrls)
        \cup IdRecords
        \cup ImageLinkRecords
        \cup EnrichmentRecords
        \cup {BaseRecord, LongRecord}

(***************************************************************************)
(* The state machine: a caller hands raw to normalize(), and then either    *)
(* hands the result back to normalize() or enriches it with features,      *)
(* intents and the optimized content.                                      *)
(***************************************************************************)
\* no record: the call raised
NoProduct == [k \in {} |-> NoneV]

\* {}: a dict without keys
EmptyDict == [k \in {} |-> NoneV]

\* no batch, graph or query is part of the run
NoBatch ==
    /\ products = <<>>
    /\ graph = [products |-> EmptyDict, relationships |-> <<>>]
    /\ queries = <<>>
    /\ similarity = <<>>
    /\ query_results = <<>>
    /\ encoded = <<>>
    /\ enriched_products = <<>>

\* no single record is part of the run
NoRecord ==
    /\ raw = NoProduct
    /\ product = NoProduct
    /\ fedback = FALSE

\* the orchestrator's main() is not part of the run
NoMain ==
    /\ run = [entry |-> "", n_products |-> 0, n_queries |-> 0, i |-> 0]
    /\ files = {}

Init ==
    /\ raw \in RawRecords
    /\ product = NoProduct
    /\ pc = "raw"
    /\ fedback = FALSE
    /\ NoBatch
    /\ NoMain

\* product = normalizer.normalize(raw)
Normalize ==
    /\ pc = "raw"
    /\ \E res \in normalize(raw) :
          IF res.ok
          THEN product' = res.val /\ pc' = "normalized"
          ELSE product' = NoProduct /\ pc' = "raised"
    /\ UNCHANGED <<raw, fedback, batchVars, mainVars>>

\* again = normalizer.normalize(product): the record normalize() returned is
\* fed back as raw input
Renormalize ==
    /\ pc = "normalized"
    /\ "features" \notin DOMAIN product
    /\ "intents" \notin DOMAIN product
    /\ raw' = product
    /\ fedback' = TRUE
    /\ \E res \in normalize(product) :
          IF res.ok
          THEN product' = res.val /\ pc' = "renormalized"
          ELSE product' = NoProduct /\ pc' = "raised"
    /\ UNCHANGED <<batchVars, mainVars>>

\* product["features"] = feature_extractor.extract(product)
ExtractFeatures ==
    /\ pc = "normalized"
    /\ "features" \notin DOMAIN product
    /\ product' = Put(product, "features", ListV(extract(product)))
    /\ UNCHANGED <<raw, pc, fedback, batchVars, mainVars>>

\* product["intents"] = intent_mapper.extract_intents(product)
ExtractIntents ==
    /\ pc = "normalized"
    /\ "intents" \notin DOMAIN product
    /\ product' = Put(product, "intents", ListV(extract_intents(product)))
    /\ UNCHANGED <<raw, pc, fedback, batchVars, mainVars>>

\* product = content_optimizer.optimize_content(product)
OptimizeContent ==
    /\ pc = "normalized"
    /\ "features" \in DOMAIN product
    /\ "intents" \in DOMAIN product
    /\ product' = optimize_content(product)
    /\ pc' = "optimized"
    /\ UNCHANGED <<raw, fedback, batchVars, mainVars>>

Next ==
    \/ Normalize
    \/ Renormalize
    \/ ExtractFeatures
    \/ ExtractIntents
    \/ OptimizeContent

Spec == Init /\ [][Next]_vars

(***************************************************************************)
(* KnowledgeGraphBuilder (knowledge_graph.py), applied to a batch of       *)
(* enriched records.                                                       *)
(***************************************************************************)
\* most records in a batch
MaxProducts == 3

\* the enriched record of a raw record: normalize, then the intents, the
\* features and the optimized content
Enrich(r) ==
    LET WithIntents(p) == Put(p, "intents", ListV(extract_intents(p)))
        WithFeatures(p) == Put(p, "features", ListV(extract(p)))
        Returned(outcomes) == (CHOOSE res \in outcomes : res.ok).val
    IN  optimize_content(WithFeatures(WithIntents(Returned(normalize(r)))))

\* the raw records the batches are drawn from: ids that are distinct, blank
\* and repeated, with and without intents, with and without a category
BatchRaw ==
    { Put(BaseRecord, "id", StrV("p1")),
      [id |-> StrV("p2"), title |-> StrV("Basic Tee"), price |-> StrV("45")],
      [id |-> StrV("p3"), title |-> StrV("Everyday Tee"), price |-> StrV("45.00"),
       category |-> StrV("Kids")],
      [id |-> StrV("p4"), title |-> StrV("Tee"), price |-> StrV("60"),
       category |-> StrV("Women > Tops"), availability |-> StrV("in stock")],
      [id |-> StrV("  "), title |-> StrV("Soft Hoodie"), price |-> IntV(10),
       category |-> StrV("Hoodies")],
      [id |-> StrV("p1"), title |-> StrV("Wool Dress"), price |-> StrV("$30"),
       category |-> StrV("Dresses")],
      [title |-> StrV("Blue Denim"), category |-> StrV("Men")] }

\* the enriched records of a batch; the last of them has lost its id key
BatchRecords ==
    { IF e["title"] = StrV("Blue Denim") THEN Without(e, "id") ELSE e :
        e \in {Enrich(r) : r \in BatchRaw} }

\* the batches of at most n records
Batches(n) == UNION {[1..k -> BatchRecords] : k \in 0..n}

\* build_graph without its "if not product_id: continue"
Retained_any(p) == TRUE

\* product.get("id", "") is truthy: build_graph keeps the record
Retained(p) == Truthy(Get(p, "id", StrV("")))

\* _create_product_node
_create_product_node(p) ==
    [title |-> Get(p, "ai_optimized_title", Get(p, "title", StrV(""))),
     category |-> Get(p, "category", StrV("")),
     intents |-> Get(p, "intents", ListV(<<>>)),
     features |-> Get(p, "features", ListV(<<>>)),
     price |-> Get(p, "price", FloatV(0))]

\* _create_relationships with the category edge appended before the intent edges
_create_relationships_category_first(p) ==
    LET product_id == Get(p, "id", StrV(""))
        intents == GetList(p, "intents")
        category == Get(p, "category", StrV(""))
    IN  IF ~Truthy(product_id) THEN <<>>
        ELSE (IF Truthy(category)
              THEN << [type |-> "belongs_to", source |-> product_id, target |-> category] >>
              ELSE <<>>)
             \o [i \in 1..Len(intents) |->
                   [type |-> "serves_intent", source |-> product_id,
                    target |-> StrV(intents[i])]]

\* _create_relationships
_create_relationships(p) ==
    LET product_id == Get(p, "id", StrV(""))
        intents == GetList(p, "intents")
        category == Get(p, "category", StrV(""))
    IN  IF ~Truthy(product_id) THEN <<>>
        ELSE [i \in 1..Len(intents) |->
                [type |-> "serves_intent", source |-> product_id,
                 target |-> StrV(intents[i])]]
             \o (IF Truthy(category)
                 THEN << [type |-> "belongs_to", source |-> product_id, target |-> category] >>
                 ELSE <<>>)

RECURSIVE BuildFrom(_, _, _)
\* the loop of build_graph from the i-th record on
BuildFrom(batch, i, g) ==
    IF i > Len(batch) THEN g
    ELSE IF ~Retained(batch[i]) THEN BuildFrom(batch, i + 1, g)
    ELSE BuildFrom(batch, i + 1,
            [products |-> Put(g.products, Get(batch[i], "id", StrV("")),
                              _create_product_node(batch[i])),
             relationships |-> g.relationships \o _create_relationships(batch[i])])

\* build_graph
build_graph(batch) ==
    BuildFrom(batch, 1, [products |-> EmptyDict, relationships |-> <<>>])

InitKG ==
    /\ products \in Batches(MaxProducts)
    /\ graph = [products |-> EmptyDict, relationships |-> <<>>]
    /\ queries = <<>>
    /\ similarity = <<>>
    /\ query_results = <<>>
    /\ encoded = <<>>
    /\ enriched_products = <<>>
    /\ pc = "batch"
    /\ NoRecord
    /\ NoMain

\* graph = builder.build_graph(products)
BuildGraph ==
    /\ pc = "batch"
    /\ graph' = build_graph(products)
    /\ pc' = "graph_built"
    /\ UNCHANGED <<recordVars, products, queries, similarity, query_results, encoded,
                   enriched_products, mainVars>>

NextKG == BuildGraph

SpecKG == InitKG /\ [][NextKG]_vars

(***************************************************************************)
(* QueryMatcher (pipeline_components/query_matcher.py).  A score is an     *)
(* integer number of hundredths; the encoder is opaque, so the cosine      *)
(* similarity of a record is an input of the model.                        *)
(***************************************************************************)
\* QueryMatcher.top_results
top_results == 3
\* most records in a batch that is ranked
MaxRanked == 4
\* most queries matched against one batch
MaxQueries == 2

\* a price as a number of 1/PriceScale, for an int or a float
Number(v) == IF v.kind = "int" THEN v.n * PriceScale ELSE v.x

\* _get_price_boost with the test of the match reason: "under" and price < 50
_get_price_boost_as_reason(query_lower, p) ==
    IF IsSubstring("under", query_lower) /\ Number(Get(p, "price", IntV(0))) < 50 * PriceScale
    THEN 20
    ELSE 0

\* _get_price_boost: 0.2 or 0.0
_get_price_boost(query_lower, p) ==
    IF ~IsSubstring("under", query_lower) /\ ~IsSubstring("below", query_lower) THEN 0
    ELSE LET first_match == FirstRun(query_lower, DigitSet)
         IN  IF first_match = "" THEN 0
             ELSE IF Number(Get(p, "price", IntV(0))) <= NatOf(first_match) * PriceScale
                  THEN 20
                  ELSE 0

\* the number of tags whose rendering with spaces is in the query
Mentioned(tags, query_lower) ==
    Cardinality({i \in 1..Len(tags) : IsSubstring(Replace(tags[i], "_", " "), query_lower)})

\* _get_intent_boost that adds 0.1 once, however many intents match
_get_intent_boost_capped(query_lower, p) ==
    IF Mentioned(GetList(p, "intents"), query_lower) > 0 THEN 10 ELSE 0

\* _get_intent_boost: 0.1 for each intent
_get_intent_boost(query_lower, p) == 10 * Mentioned(GetList(p, "intents"), query_lower)

\* _get_feature_boost: 0.05 for each feature
_get_feature_boost(query_lower, p) == 5 * Mentioned(GetList(p, "features"), query_lower)

\* _calculate_boost_score
_calculate_boost_score(query, p) ==
    LET query_lower == Lower(query)
    IN  _get_price_boost(query_lower, p) + _get_intent_boost(query_lower, p)
            + _get_feature_boost(query_lower, p)

\* _create_product_text
_create_product_text(p) ==
    LET components == << Str(Get(p, "ai_optimized_content", StrV(""))),
                         Join(GetList(p, "intents"), " "),
                         Join(GetList(p, "features"), " ") >>
        NonEmpty(c) == c # ""
    IN  Join(SelectSeq(components, NonEmpty), " ")

\* _calculate_similarity: 0.0 for a record without text, else the cosine
\* similarity sim of the two embeddings
_calculate_similarity(sim, p) ==
    IF Strip(_create_product_text(p)) = "" THEN 0 ELSE sim

\* _generate_match_reason with the feature reasons before the others
_generate_match_reason_features_first(query, p, sim) ==
    LET query_lower == Lower(query)
        features == GetList(p, "features")
        InQuery(f) == IsSubstring(Replace(f, "_", " "), query_lower)
        matched == SelectSeq(features, InQuery)
        reasons ==
            [i \in 1..Len(matched) |-> "Has " \o Replace(matched[i], "_", " ")]
                \o (IF sim > 50 THEN <<"Strong semantic match">> ELSE <<>>)
                \o (IF IsSubstring("under", query_lower)
                       /\ Number(Get(p, "price", IntV(0))) < 50 * PriceScale
                    THEN <<"Price in range ($" \o Str(Get(p, "price", IntV(0))) \o ")">>
                    ELSE <<>>)
    IN  IF reasons # <<>> THEN Join(reasons, ". ") ELSE "Partial match"

\* _generate_match_reason
_generate_match_reason(query, p, sim) ==
    LET query_lower == Lower(query)
        features == GetList(p, "features")
        InQuery(f) == IsSubstring(Replace(f, "_", " "), query_lower)
        matched == SelectSeq(features, InQuery)
        reasons ==
            (IF sim > 50 THEN <<"Strong semantic match">> ELSE <<>>)
                \o (IF IsSubstring("under", query_lower)
                       /\ Number(Get(p, "price", IntV(0))) < 50 * PriceScale
                    THEN <<"Price in range ($" \o Str(Get(p, "price", IntV(0))) \o ")">>
                    ELSE <<>>)
                \o [i \in 1..Len(matched) |-> "Has " \o Replace(matched[i], "_", " ")]
    IN  IF reasons # <<>> THEN Join(reasons, ". ") ELSE "Partial match"

\* the results list of match_query before it is sorted: one result per record
ScoredResults(query, batch, sims) ==
    [i \in 1..Len(batch) |->
        LET similarity_score == _calculate_similarity(sims[i], batch[i])
        IN  [product_id |-> Get(batch[i], "id", StrV("")),
             description |-> Get(batch[i], "ai_optimized_content",
                                 Get(batch[i], "title", StrV(""))),
             score |-> similarity_score + _calculate_boost_score(query, batch[i]),
             reason |-> _generate_match_reason(query, batch[i], similarity_score)]]

RECURSIVE SortByScore_unstable(_)
\* results.sort(key=score, reverse=True) that puts a later equal score first
SortByScore_unstable(results) ==
    IF results = <<>> THEN <<>>
    ELSE LET sorted_head == SortByScore_unstable(SubSeq(results, 1, Len(results) - 1))
             last == results[Len(results)]
             ahead == {k \in 1..Len(sorted_head) : sorted_head[k].score > last.score}
             n == Cardinality(ahead)
         IN  SubSeq(sorted_head, 1, n) \o <<last>>
                 \o SubSeq(sorted_head, n + 1, Len(sorted_head))

RECURSIVE SortByScore(_)
\* results.sort(key=score, reverse=True): each result goes behind the results
\* before it whose score is not lower
SortByScore(results) ==
    IF results = <<>> THEN <<>>
    ELSE LET sorted_head == SortByScore(SubSeq(results, 1, Len(results) - 1))
             last == results[Len(results)]
             ahead == {k \in 1..Len(sorted_head) : sorted_head[k].score >= last.score}
             n == Cardinality(ahead)
         IN  SubSeq(sorted_head, 1, n) \o <<last>>
                 \o SubSeq(sorted_head, n + 1, Len(sorted_head))

\* match_query
match_query(query, batch, sims) ==
    IF batch = <<>> THEN <<>>
    ELSE Take(SortByScore(ScoredResults(query, batch, sims)), top_results)

\* the texts match_query hands to encoder.encode: none for an empty batch, else
\* the query, then the text of each record whose text is not blank
EncodeCalls(query, batch) ==
    LET NotBlank(text) == Strip(text) # ""
    IN  IF batch = <<>> THEN <<>>
        ELSE <<query>>
                \o SelectSeq([i \in 1..Len(batch) |-> _create_product_text(batch[i])],
                             NotBlank)

\* the inputs of match_query: one query scored against one record, one query
\* ranking a batch, and several queries against one record
MatchInputs(records) ==
    LET \* cosine similarities, in hundredths: negative, at 0.5 and above it
        SimValues == {-10, 50, 51}
        \* the queries a single record is scored against
        ScoringQueries ==
            Concats({"under ", "Below ", "45", "22", "5", "casual ", "slim fit ", "summer"},
                    MaxFrags)
                \cup {"casual comfort under 30", "Eco Friendly organic cotton",
                      "under 29.99", "jeans", "blue denim stretchy"}
        \* the queries of a run of several: with and without "under", "below"
        \* and a number
        PriceQueries == {"below 50", "under 20", "under 100", "Understated"}
        \* (record, similarity) pairs whose scores tie and overtake one another
        \* under the query "casual tee under 50"
        RankSlots ==
            {slot \in records \X {50, 51, 60} :
                <<slot[1]["title"].s, slot[2]>>
                    \in {<<"Basic Tee", 50>>, <<"Everyday Tee", 50>>, <<"Everyday Tee", 51>>,
                         <<"Wool Dress", 60>>, <<"Tee", 60>>}}
    IN  {[queries |-> <<q>>, products |-> <<r>>, similarity |-> <<sim>>] :
            q \in ScoringQueries, r \in records, sim \in SimValues}
        \cup {[queries |-> <<"casual tee under 50">>,
               products |-> [i \in DOMAIN slots |-> slots[i][1]],
               similarity |-> [i \in DOMAIN slots |-> slots[i][2]]] :
                slots \in UNION {[1..k -> RankSlots] : k \in 0..MaxRanked}}
        \cup {[queries |-> qs, products |-> <<r>>, similarity |-> <<50>>] :
                qs \in UNION {[1..k -> PriceQueries] : k \in 0..MaxQueries}, r \in records}

InitQM ==
    /\ \E input \in MatchInputs(BatchRecords) :
          /\ queries = input.queries
          /\ products = input.products
          /\ similarity = input.similarity
    /\ graph = [products |-> EmptyDict, relationships |-> <<>>]
    /\ query_results = <<>>
    /\ encoded = <<>>
    /\ enriched_products = <<>>
    /\ pc = "matching"
    /\ NoRecord
    /\ NoMain

\* matches = matcher.match_query(query, products), for the next query
MatchQuery ==
    /\ pc = "matching"
    /\ Len(query_results) < Len(queries)
    /\ query_results' =
          Append(query_results,
                 match_query(queries[Len(query_results) + 1], products, similarity))
    /\ encoded' = encoded \o EncodeCalls(queries[Len(query_results) + 1], products)
    /\ pc' = IF Len(query_results) + 1 = Len(queries) THEN "matched" ELSE "matching"
    /\ UNCHANGED <<recordVars, products, graph, queries, similarity, enriched_products,
                   mainVars>>

NextQM == MatchQuery

SpecQM == InitQM /\ [][NextQM]_vars

(***************************************************************************)
(* The run of the orchestrator: main() of product_pipeline.py, and main()  *)
(* of main.py, around process_pipeline.  The data is left out: run counts  *)
(* the records and queries done, files is the set of output files this run *)
(* has created, and each step that can raise may do so.                    *)
(***************************************************************************)

\* the output files, in the order main() writes them
OutputFiles == <<"enriched_products.json", "knowledge_graph.json", "query_results.json">>

InitMain ==
    /\ run \in [entry : {"product_pipeline.py", "main.py"},
                n_products : 0..MaxProducts,
                n_queries : 0..MaxQueries,
                i : {0}]
    /\ files = {}
    /\ pc = "main_start"
    /\ NoRecord
    /\ NoBatch

\* output_dir.mkdir(parents=True, exist_ok=True), of product_pipeline.py only
MakeOutputDir ==
    /\ pc = "main_start"
    /\ run.entry = "product_pipeline.py"
    /\ \/ pc' = "dir_made"
       \/ pc' = "raised"
    /\ UNCHANGED <<recordVars, batchVars, mainVars>>

\* if not input_dir.exists(): raise FileNotFoundError
CheckInputDir ==
    /\ pc = (IF run.entry = "product_pipeline.py" THEN "dir_made" ELSE "main_start")
    /\ \E exists \in BOOLEAN : pc' = (IF exists THEN "input_checked" ELSE "raised")
    /\ UNCHANGED <<recordVars, batchVars, mainVars>>

\* pipeline = AIProductPipeline(), which loads the encoder
Construct ==
    /\ pc = "input_checked"
    /\ \/ pc' = "loading"
       \/ pc' = "raised"
    /\ UNCHANGED <<recordVars, batchVars, mainVars>>

\* the three load_data calls of process_pipeline, one at a time
LoadData ==
    /\ pc = "loading"
    /\ \/ /\ pc' = (IF run.i + 1 = 3 THEN "processing" ELSE "loading")
          /\ run' = [run EXCEPT !.i = IF run.i + 1 = 3 THEN 0 ELSE run.i + 1]
       \/ /\ pc' = "raised"
          /\ UNCHANGED run
    /\ UNCHANGED <<recordVars, batchVars, files>>

\* one iteration of "for product in products"
ProcessProduct ==
    /\ pc = "processing"
    /\ run.i < run.n_products
    /\ \/ /\ pc' = "processing"
          /\ run' = [run EXCEPT !.i = run.i + 1]
       \/ /\ pc' = "raised"
          /\ UNCHANGED run
    /\ UNCHANGED <<recordVars, batchVars, files>>

\* graph = self.build_knowledge_graph(enriched_products[:3]), after the loop
BuildKnowledgeGraph ==
    /\ pc = "processing"
    /\ run.i = run.n_products
    /\ \/ /\ pc' = "matching"
          /\ run' = [run EXCEPT !.i = 0]
       \/ /\ pc' = "raised"
          /\ UNCHANGED run
    /\ UNCHANGED <<recordVars, batchVars, files>>

\* one iteration of "for query in queries": the encoder may raise
MatchNextQuery ==
    /\ pc = "matching"
    /\ run.i < run.n_queries
    /\ \/ /\ pc' = "matching"
          /\ run' = [run EXCEPT !.i = run.i + 1]
       \/ /\ pc' = "raised"
          /\ UNCHANGED run
    /\ UNCHANGED <<recordVars, batchVars, files>>

\* process_pipeline returns its three results
ReturnResults ==
    /\ pc = "matching"
    /\ run.i = run.n_queries
    /\ pc' = "saving"
    /\ run' = [run EXCEPT !.i = 0]
    /\ UNCHANGED <<recordVars, batchVars, files>>

\* with open(output_dir / name, "w") as f: json.dump(..., f, indent=2), for the
\* next output file: open raises, or it creates the file and json.dump raises,
\* or the file is written
WriteOutput ==
    /\ pc = "saving"
    /\ run.entry = "product_pipeline.py"
    /\ run.i < Len(OutputFiles)
    /\ \/ /\ pc' = "raised"
          /\ UNCHANGED <<run, files>>
       \/ /\ pc' = "raised"
          /\ files' = files \cup {OutputFiles[run.i + 1]}
          /\ UNCHANGED run
       \/ /\ pc' = "saving"
          /\ files' = files \cup {OutputFiles[run.i + 1]}
          /\ run' = [run EXCEPT !.i = run.i + 1]
    /\ UNCHANGED <<recordVars, batchVars>>

\* the closing log lines of product_pipeline.py's main()
Finish ==
    /\ pc = "saving"
    /\ run.entry = "product_pipeline.py"
    /\ run.i = Len(OutputFiles)
    /\ pc' = "done"
    /\ UNCHANGED <<recordVars, batchVars, mainVars>>

\* pipeline.save_results(results, str(output_dir)) of main.py: the class has
\* no such method, the AttributeError is logged and raised again
SaveResults ==
    /\ pc = "saving"
    /\ run.entry = "main.py"
    /\ pc' = "raised"
    /\ UNCHANGED <<recordVars, batchVars, mainVars>>

NextMain ==
    \/ MakeOutputDir
    \/ CheckInputDir
    \/ Construct
    \/ LoadData
    \/ ProcessProduct
    \/ BuildKnowledgeGraph
    \/ MatchNextQuery
    \/ ReturnResults
    \/ WriteOutput
    \/ Finish
    \/ SaveResults

SpecMain == InitMain /\ [][NextMain]_vars

(***************************************************************************)
(* The enrichment and the graph of the orchestrator itself: the methods of *)
(* AIProductPipeline that process_pipeline calls on each loaded record and *)
(* on the first three enriched records (product_pipeline.py).              *)
(***************************************************************************)

\* AIProductPipeline.extract_intents: the lists that list(set(intents)) can be,
\* a set having no order of its own
AIProductPipeline_extract_intents(p) ==
    LET text == ProductText(p)
        \* self.intent_map, the same dict as IntentMapper.intent_keywords
        intent_map == intent_keywords
        category == Str(Get(p, "category", StrV("")))
        intents ==
            { intent_map[i].intent : i \in
                {i \in 1..Len(intent_map) :
                    \E j \in 1..Len(intent_map[i].keywords) :
                        IsSubstring(intent_map[i].keywords[j], text)} }
            \cup (IF Number(Get(p, "price", IntV(0))) < 30 * PriceScale
                  THEN {"budget_friendly"}
                  ELSE {})
            \cup (IF IsSubstring("dress", category) THEN {"dress_shopping"}
                  ELSE IF IsSubstring("hoodie", category) THEN {"cozy_wear"}
                  ELSE {})
    IN  {order \in [1..Cardinality(intents) -> intents] :
            \A i, j \in 1..Cardinality(intents) : i # j => order[i] # order[j]}

\* AIProductPipeline.extract_features
AIProductPipeline_extract_features(p) ==
    LET text == ProductText(p)
        InText(k) == IsSubstring(k, text)
        found_colors == SelectSeq(<<"white", "blue", "black">>, InText)
    IN  SelectSeq(<<"cotton", "organic", "denim", "wool">>, InText)
            \o (IF InText("slim") THEN <<"slim_fit">> ELSE <<>>)
            \o (IF InText("stretch") THEN <<"stretchy">> ELSE <<>>)
            \o [i \in 1..Len(found_colors) |-> found_colors[i] \o "_color"]

\* AIProductPipeline.create_ai_optimized_content
AIProductPipeline_create_ai_optimized_content(p) ==
    LET brand == Str(Get(p, "brand", StrV("")))
        title == Str(Get(p, "title", StrV("")))
        desc == Str(Get(p, "description", StrV("")))
        intents == GetList(p, "intents")
        features == GetList(p, "features")
        category == Str(Get(p, "category", StrV("")))
        audience == IF IsSubstring("women", category) THEN "Women"
                    ELSE IF IsSubstring("men", category) THEN "Men"
                    ELSE IF IsSubstring("kids", category) THEN "Kids"
                    ELSE ""
        plain_title == Strip(brand \o " " \o audience \o " " \o title)
        ai_title == IF InList("organic", features)
                    THEN "Eco-Friendly " \o plain_title
                    ELSE plain_title
        ai_desc == desc
                     \o (IF intents # <<>>
                         THEN ". Perfect for "
                                 \o Replace(Join(Take(intents, 2), ", "), "_", " ")
                         ELSE "")
                     \o (IF features # <<>>
                         THEN ". Features: "
                                 \o Replace(Join(Take(features, 3), ", "), "_", " ")
                         ELSE "")
    IN  Put(Put(p, "ai_optimized_title", StrV(Take(ai_title, 150))),
            "ai_optimized_description", StrV(Take(ai_desc, 500)))

\* AIProductPipeline.build_knowledge_graph: product["id"] and product["title"]
\* raise KeyError for a record without the key
AIProductPipeline_build_knowledge_graph(batch) ==
    LET Node(p) ==
            [title |-> Get(p, "ai_optimized_title", p["title"]),
             category |-> Get(p, "category", StrV("")),
             intents |-> Get(p, "intents", ListV(<<>>)),
             features |-> Get(p, "features", ListV(<<>>)),
             price |-> Get(p, "price", IntV(0))]
        Edges(p) ==
            [i \in 1..Len(GetList(p, "intents")) |->
                [type |-> "serves_intent", source |-> p["id"],
                 target |-> StrV(GetList(p, "intents")[i])]]
            \o (IF Truthy(Get(p, "category", StrV("")))
                THEN << [type |-> "belongs_to", source |-> p["id"],
                         target |-> p["category"]] >>
                ELSE <<>>)
        RECURSIVE From(_, _)
        From(i, g) ==
            IF i > Len(batch) THEN Ok(g)
            ELSE IF {"id", "title"} \subseteq DOMAIN batch[i]
            THEN From(i + 1, [products |-> Put(g.products, batch[i]["id"], Node(batch[i])),
                              relationships |-> g.relationships \o Edges(batch[i])])
            ELSE Raise("KeyError")
    IN  From(1, [products |-> EmptyDict, relationships |-> <<>>])

\* products = self.data_loader.load_data(input_csv, "csv"): up to MaxProducts
\* rows, among them rows without an id, with a long title, with a brand and no
\* category, and with an empty availability cell
InitPipeline ==
    /\ LET rows ==
               { [id |-> StrV("p2"), title |-> StrV("Basic Tee"), price |-> StrV("45")],
                 [title |-> StrV("Blue Denim"), category |-> StrV("Men")],
                 [id |-> StrV("  "), title |-> StrV("Soft Hoodie"), price |-> IntV(10),
                  category |-> StrV("Hoodies")],
                 Put(LongRecord, "id", StrV("p3")),
                 [id |-> StrV("p6"), brand |-> StrV("Acme"), title |-> StrV("Tee"),
                  price |-> StrV("60")],
                 [id |-> StrV("p5"), title |-> StrV("Tee"), availability |-> NaNV] }
       IN  products \in UNION {[1..k -> rows] : k \in 0..MaxProducts}
    /\ enriched_products = <<>>
    /\ graph = [products |-> EmptyDict, relationships |-> <<>>]
    /\ queries = <<>>
    /\ similarity = <<>>
    /\ query_results = <<>>
    /\ encoded = <<>>
    /\ pc = "enriching"
    /\ NoRecord
    /\ NoMain

\* one iteration of "for product in products" of process_pipeline
EnrichProduct ==
    /\ pc = "enriching"
    /\ Len(enriched_products) < Len(products)
    /\ \E res \in normalize(products[Len(enriched_products) + 1]) :
          IF res.ok
          THEN \E intents \in AIProductPipeline_extract_intents(res.val) :
                  LET WithFeatures(p) ==
                          Put(p, "features", ListV(AIProductPipeline_extract_features(p)))
                  IN  /\ enriched_products' =
                            Append(enriched_products,
                                   AIProductPipeline_create_ai_optimized_content(
                                       WithFeatures(Put(res.val, "intents", ListV(intents)))))
                      /\ pc' = "enriching"
          ELSE /\ pc' = "raised"
               /\ UNCHANGED enriched_products
    /\ UNCHANGED <<recordVars, products, graph, queries, similarity, query_results,
                   encoded, mainVars>>

\* graph = self.build_knowledge_graph(enriched_products[:3])
BuildPipelineGraph ==
    /\ pc = "enriching"
    /\ Len(enriched_products) = Len(products)
    /\ LET built == AIProductPipeline_build_knowledge_graph(Take(enriched_products, 3))
       IN  IF built.ok
           THEN graph' = built.val /\ pc' = "pipeline_graph_built"
           ELSE pc' = "raised" /\ UNCHANGED graph
    /\ UNCHANGED <<recordVars, products, queries, similarity, query_results, encoded,
                   enriched_products, mainVars>>

NextPipeline ==
    \/ EnrichProduct
    \/ BuildPipelineGraph

SpecPipeline == InitPipeline /\ [][NextPipeline]_vars

(***************************************************************************)
(* Properties.                                                             *)
(***************************************************************************)
\* normalize() has returned a record (which may have been enriched since)
HasRecord == pc \in {"normalized", "renormalized", "optimized"}

\* xs as a set
Elems(xs) == {xs[i] : i \in 1..Len(xs)}

\* a price that is missing, None, NaN, or a string without any digit
PriceAbsentOrNonNumeric(r) ==
    \/ "price" \notin DOMAIN r
    \/ r["price"].kind \in {"none", "nan"}
    \/ /\ r["price"].kind = "str"
       /\ \A i \in 1..Len(r["price"].s) : ~IsDigit(Char(r["price"].s, i))

\* C1: whatever the raw price (missing, None, NaN, "", a number, a string), the
\* record normalize() returns has a float price >= 0, and a missing, empty or
\* non-numeric price gives exactly the default 0.0.
C1_PriceNonNegative ==
    HasRecord =>
        /\ product["price"].kind = "float"
        /\ product["price"].x >= 0
        /\ PriceAbsentOrNonNumeric(raw) => product["price"].x = 0

\* a negative number has been clamped to 0.0
C1_Witness ==
    /\ pc = "normalized"
    /\ "price" \in DOMAIN raw
    /\ raw["price"] = IntV(-5)
    /\ product["price"] = FloatV(0)

\* C2: normalize() is idempotent on its own output: a record it returned, fed
\* back as raw input, comes back equal in every normalized field.
C2_Idempotent ==
    fedback =>
        /\ pc # "raised"
        /\ \A k \in NormalizedKeys : product[k] = raw[k]

\* C3: normalize() is total: it never raises, whatever the type of a field.
C3_NeverRaises == pc # "raised"

\* the availability is falsy, or a string that holds no variant of either list
AvailabilityEmptyOrUnmatched(r) ==
    \/ "availability" \notin DOMAIN r
    \/ ~Truthy(r["availability"])
    \/ /\ r["availability"].kind = "str"
       /\ LET cleaned == Replace(Strip(Lower(r["availability"].s)), " ", "")
          IN  \A i \in 1..Len(AVAILABILITY_MAPPINGS) :
                \A j \in 1..Len(AVAILABILITY_MAPPINGS[i].variations) :
                    ~IsSubstring(Replace(AVAILABILITY_MAPPINGS[i].variations[j], " ", ""),
                                 cleaned)

\* C4: the availability of a normalized record is in_stock or out_of_stock, and
\* an empty value or one that matches no variant gives out_of_stock.
C4_AvailabilityTwoValued ==
    HasRecord =>
        /\ product["availability"] \in {StrV("in_stock"), StrV("out_of_stock")}
        /\ AvailabilityEmptyOrUnmatched(raw) =>
              product["availability"] = StrV("out_of_stock")

\* an unknown availability string has become out_of_stock
C4_Witness ==
    /\ pc = "normalized"
    /\ "availability" \in DOMAIN raw
    /\ raw["availability"] = StrV("soon")
    /\ product["availability"] = StrV("out_of_stock")

\* C5: the normalized category holds no ">", no comma and no whitespace, no two
\* adjacent "/", and neither starts nor ends with "/"; an empty category gives "".
C5_CategoryCanonical ==
    HasRecord =>
        LET c == product["category"].s
        IN  /\ product["category"].kind = "str"
            /\ \A i \in 1..Len(c) : Char(c, i) \notin ({">", ","} \cup Whitespace)
            /\ \A i \in 1..(Len(c) - 1) : ~(Char(c, i) = "/" /\ Char(c, i + 1) = "/")
            /\ c # "" => (Char(c, 1) # "/" /\ Char(c, Len(c)) # "/")
            /\ ("category" \in DOMAIN raw /\ raw["category"] = StrV("")) => c = ""

\* separators of every kind, doubled and at both ends, have been canonicalised
C5_Witness ==
    /\ pc = "normalized"
    /\ "category" \in DOMAIN raw
    /\ raw["category"] = StrV("\tShoes,\n,Kids ")
    /\ product["category"] = StrV("shoes/kids")

\* C6: the record normalize() returns has no image_urls key and has an
\* image_link key, whether or not the raw record had image_urls.
C6_NoImageUrls ==
    HasRecord => ("image_urls" \notin DOMAIN product /\ "image_link" \in DOMAIN product)

\* a raw record with image_urls has been normalized
C6_Witness ==
    /\ pc = "normalized"
    /\ "image_urls" \in DOMAIN raw
    /\ raw["image_urls"] = StrV("https://x.io/a.jpg|https://x.io/b.jpg")
    /\ product["image_link"] = StrV("https://x.io/a.jpg")

\* C7: budget_friendly is among the intents iff 0 < price < 30.0.
C7_BudgetFriendly ==
    (HasRecord /\ "intents" \in DOMAIN product) =>
        (InList("budget_friendly", product["intents"].items)
            <=> (product["price"].x > 0 /\ product["price"].x < 30 * PriceScale))

\* the intent fires at 29.99
C7_Witness ==
    /\ HasRecord
    /\ "intents" \in DOMAIN product
    /\ product["price"] = Hundredths(2999)
    /\ InList("budget_friendly", product["intents"].items)

\* the intents the three sources give for a record, as the specification
\* words them
TextIntentFires(i, text) ==
    \E j \in 1..Len(intent_keywords[i].keywords) :
        IsSubstring(intent_keywords[i].keywords[j], text)

ExpectedIntentsOf(text, price, category) ==
    {intent_keywords[i].intent :
        i \in {i \in 1..Len(intent_keywords) : TextIntentFires(i, text)}}
        \cup (IF price > 0 /\ price < 30 * PriceScale THEN {"budget_friendly"} ELSE {})
        \cup (IF IsSubstring("dress", category) THEN {"dress_shopping"}
              ELSE IF IsSubstring("hoodie", category) THEN {"cozy_wear"}
              ELSE {})

ExpectedIntents(p) ==
    ExpectedIntentsOf(Lower(p["title"].s \o " " \o p["description"].s),
                      p["price"].x, Lower(p["category"].s))

\* C8: extract_intents returns a strictly increasing sequence whose elements
\* are exactly the text, price and category intents of the record.
C8_IntentsSortedUnion ==
    (HasRecord /\ "intents" \in DOMAIN product) =>
        LET intents == product["intents"].items
        IN  /\ \A i \in 1..(Len(intents) - 1) : StrLess(intents[i], intents[i + 1])
            /\ Elems(intents) = ExpectedIntents(product)

\* intents from the text, the price and the category, in order
C8_Witness ==
    /\ HasRecord
    /\ "intents" \in DOMAIN product
    /\ product["intents"].items
          = <<"budget_friendly", "casual", "dress_shopping", "eco_friendly">>

\* the (trigger, tag) pairs of the feature vocabulary
FeatureVocabulary ==
    { <<"cotton", "cotton">>, <<"organic", "organic">>, <<"denim", "denim">>,
      <<"wool", "wool">>, <<"slim", "slim_fit">>, <<"stretch", "stretchy">>,
      <<"white", "white_color">>, <<"blue", "blue_color">>, <<"black", "black_color">> }

\* C9: extract returns a duplicate-free sequence that holds a tag iff its
\* trigger is a substring of lower(title + " " + description), and the step
\* leaves every key of the record as it was.
C9_Features ==
    [][ ("features" \notin DOMAIN product /\ "features" \in DOMAIN product') =>
            LET features == product'["features"].items
                text == Lower(product["title"].s \o " " \o product["description"].s)
            IN  /\ \A i, j \in 1..Len(features) : i # j => features[i] # features[j]
                /\ Elems(features) =
                      {pair[2] : pair \in {q \in FeatureVocabulary : IsSubstring(q[1], text)}}
                /\ \A k \in DOMAIN product : product'[k] = product[k] ]_vars

\* a style tag and a colour tag from one word of the title
C9_Witness ==
    /\ HasRecord
    /\ "features" \in DOMAIN product
    /\ product["title"] = StrV("slimblue")
    /\ product["features"].items = <<"slim_fit", "blue_color">>

\* the audience of a category: women before men before kids
ExpectedAudience(category) ==
    IF IsSubstring("women", category) THEN <<"Women">>
    ELSE IF IsSubstring("men", category) THEN <<"Men">>
    ELSE IF IsSubstring("kids", category) THEN <<"Kids">>
    ELSE <<>>

\* the parts of the optimized title, in order
ExpectedTitleParts(p) ==
    (IF "organic" \in Elems(p["features"].items) THEN <<"Eco-Friendly">> ELSE <<>>)
        \o (IF p["brand"].s # "" THEN <<p["brand"].s>> ELSE <<>>)
        \o ExpectedAudience(p["category"].s)
        \o (IF p["title"].s # "" THEN <<p["title"].s>> ELSE <<>>)

\* C10: the optimized title is the space-join of "Eco-Friendly" (iff organic is
\* a feature), the brand, the audience and the title (each iff non-empty), the
\* audience being the first match of women, men, kids; a join longer than the
\* 150-character cap is stored cut to 147 characters and "...".
C10_TitleAssembly ==
    pc = "optimized" =>
        LET joined == Join(ExpectedTitleParts(product), " ")
            stored == product["ai_optimized_title"].s
        IN  IF Len(joined) <= 150 THEN stored = joined
            ELSE stored = SubSeq(joined, 1, 147) \o "..."

\* a category that holds kids, men and women resolves to Women
C10_Witness ==
    /\ pc = "optimized"
    /\ product["category"] = StrV("kids/women")
    /\ product["ai_optimized_title"] = StrV("Eco-Friendly H&M Women Organic Tee")

\* the parts of the optimized description, in order
ExpectedDescriptionParts(p) ==
    LET intents == p["intents"].items
        features == p["features"].items
        Spaced(xs, n) ==
            [i \in 1..(IF Len(xs) < n THEN Len(xs) ELSE n) |-> Replace(xs[i], "_", " ")]
    IN  (IF p["description"].s # "" THEN <<p["description"].s>> ELSE <<>>)
            \o (IF intents # <<>>
                THEN <<"Perfect for " \o Join(Spaced(intents, 2), ", ")>> ELSE <<>>)
            \o (IF features # <<>>
                THEN <<"Features: " \o Join(Spaced(features, 3), ", ")>> ELSE <<>>)

\* s ends in "..."
EndsInEllipsis(s) == Len(s) >= 3 /\ SubSeq(s, Len(s) - 2, Len(s)) = "..."

\* C11: after optimize_content the optimized title has at most 150 characters
\* and the optimized description at most 500, and when the assembled text was
\* longer than the cap the stored value has exactly the cap length and ends in
\* "...".
C11_TruncationCaps ==
    pc = "optimized" =>
        LET title == product["ai_optimized_title"].s
            description == product["ai_optimized_description"].s
            assembled_title == Join(ExpectedTitleParts(product), " ")
            assembled_description == Join(ExpectedDescriptionParts(product), ". ")
        IN  /\ Len(title) <= 150
            /\ Len(description) <= 500
            /\ Len(assembled_title) > 150 =>
                  (Len(title) = 150 /\ EndsInEllipsis(title))
            /\ Len(assembled_description) > 500 =>
                  (Len(description) = 500 /\ EndsInEllipsis(description))

\* both the title and the description of one record have been cut
C11_Witness ==
    /\ pc = "optimized"
    /\ Len(Join(ExpectedTitleParts(product), " ")) > 150
    /\ Len(Join(ExpectedDescriptionParts(product), ". ")) > 500
    /\ Len(product["ai_optimized_title"].s) = 150
    /\ EndsInEllipsis(product["ai_optimized_title"].s)
    /\ Len(product["ai_optimized_description"].s) = 500
    /\ EndsInEllipsis(product["ai_optimized_description"].s)

\* C12: after optimize_content on a record with features and intents, the
\* record has ai_optimized_title, ai_optimized_description and
\* ai_optimized_content, and the content is the trimmed
\* "<title>. <description>".
C12_ContentPopulated ==
    pc = "optimized" =>
        /\ {"ai_optimized_title", "ai_optimized_description", "ai_optimized_content"}
              \subseteq DOMAIN product
        /\ product["ai_optimized_content"].s
              = Strip(product["ai_optimized_title"].s \o ". "
                          \o product["ai_optimized_description"].s)

\* C19: the raw record of the scenario gives category men/jeans, price 25.0 and
\* availability in_stock; its features hold organic, cotton and slim_fit, its
\* intents hold budget_friendly, eco_friendly, casual and comfort, and its
\* optimized title starts with Eco-Friendly.
C19_Scenario ==
    (raw = BaseRecord /\ HasRecord) =>
        /\ product["category"] = StrV("men/jeans")
        /\ product["price"] = Hundredths(2500)
        /\ product["availability"] = StrV("in_stock")
        /\ "features" \in DOMAIN product =>
              {"organic", "cotton", "slim_fit"} \subseteq Elems(product["features"].items)
        /\ "intents" \in DOMAIN product =>
              {"budget_friendly", "eco_friendly", "casual", "comfort"}
                  \subseteq Elems(product["intents"].items)
        /\ pc = "optimized" =>
              SubSeq(product["ai_optimized_title"].s, 1, 12) = "Eco-Friendly"

\* the scenario record has gone through the four components
C19_Witness ==
    /\ raw = BaseRecord
    /\ pc = "optimized"
    /\ product["ai_optimized_title"] = StrV("Eco-Friendly Men Organic Cotton Slim Jeans")

\* the id of a record, "" when it has none
IdOf(p) == IF "id" \in DOMAIN p THEN p["id"] ELSE StrV("")

\* the intents of a record
IntentsOf(p) == IF "intents" \in DOMAIN p THEN p["intents"].items ELSE <<>>

\* C13: every edge's source is a key of graph.products; a record whose id is
\* empty or missing gives neither a node nor an edge; and when the ids of the
\* batch are non-empty and distinct, the sources of the serves_intent edges
\* are exactly the ids of the records that have an intent.
C13_EdgeSources ==
    pc = "graph_built" =>
        LET edges == graph.relationships
            n == Len(products)
        IN  /\ \A k \in 1..Len(edges) : edges[k].source \in DOMAIN graph.products
            /\ DOMAIN graph.products =
                  {IdOf(products[i]) : i \in 1..n} \ {StrV("")}
            /\ \A k \in 1..Len(edges) : edges[k].source # StrV("")
            /\ (\A i \in 1..n : IdOf(products[i]) # StrV(""))
                  /\ (\A i, j \in 1..n : i # j => IdOf(products[i]) # IdOf(products[j]))
               => {edges[k].source : k \in {k \in 1..Len(edges) :
                                              edges[k].type = "serves_intent"}}
                    = {IdOf(products[i]) : i \in {i \in 1..n :
                                                    IntentsOf(products[i]) # <<>>}}

\* three records with distinct ids, one of them without intents
C13_Witness ==
    /\ pc = "graph_built"
    /\ Len(products) = 3
    /\ DOMAIN graph.products = {StrV("p1"), StrV("p3"), StrV("p4")}
    /\ {graph.relationships[k].source :
          k \in {k \in 1..Len(graph.relationships) :
                    graph.relationships[k].type = "serves_intent"}}
          = {StrV("p1"), StrV("p3")}

RECURSIVE ExpectedEdges(_, _)
\* the blocks of edges of the records from the i-th on, in input order
ExpectedEdges(batch, i) ==
    IF i > Len(batch) THEN <<>>
    ELSE LET p == batch[i]
             intents == IntentsOf(p)
             category == IF "category" \in DOMAIN p THEN p["category"] ELSE StrV("")
             block ==
                 IF IdOf(p) = StrV("") THEN <<>>
                 ELSE [k \in 1..Len(intents) |->
                         [type |-> "serves_intent", source |-> IdOf(p),
                          target |-> StrV(intents[k])]]
                      \o (IF category # StrV("")
                          THEN << [type |-> "belongs_to", source |-> IdOf(p),
                                   target |-> category] >>
                          ELSE <<>>)
         IN  block \o ExpectedEdges(batch, i + 1)

\* C14: the relationships are, for each retained record in input order, one
\* serves_intent edge per intent in the order of the intents, then one
\* belongs_to edge when the category is non-empty.
C14_EdgeOrder ==
    pc = "graph_built" => graph.relationships = ExpectedEdges(products, 1)

\* a record without id, one with an intent and no category, and one with both
C14_Witness ==
    /\ pc = "graph_built"
    /\ Len(products) = 3
    /\ IdOf(products[1]) = StrV("")
    /\ graph.relationships =
          << [type |-> "serves_intent", source |-> StrV("p2"), target |-> StrV("casual")],
             [type |-> "serves_intent", source |-> StrV("p3"), target |-> StrV("casual")],
             [type |-> "belongs_to", source |-> StrV("p3"), target |-> StrV("kids")] >>

\* the features of a record
FeaturesOf(p) == IF "features" \in DOMAIN p THEN p["features"].items ELSE <<>>

\* the price of a record as a number of 1/PriceScale, 0 when it has none
PriceOf(p) ==
    IF "price" \notin DOMAIN p THEN 0
    ELSE IF p["price"].kind = "int" THEN p["price"].n * PriceScale
    ELSE p["price"].x

\* the similarity match_query scores a record with: that of the encoder, and
\* 0.0 for a record that has no content, no intent and no feature to encode
SimilarityOf(p, sim) ==
    IF /\ \A i \in 1..Len(IntentsOf(p)) : IntentsOf(p)[i] = ""
       /\ \A i \in 1..Len(FeaturesOf(p)) : FeaturesOf(p)[i] = ""
       /\ "ai_optimized_content" \in DOMAIN p => Strip(p["ai_optimized_content"].s) = ""
    THEN 0
    ELSE sim

\* the price boost the specification gives, for a lowercased query
ExpectedPriceBoost(q, p) ==
    IF /\ IsSubstring("under", q) \/ IsSubstring("below", q)
       /\ \E i \in 1..Len(q) : IsDigit(Char(q, i))
       /\ PriceOf(p) <= NatOf(FirstRun(q, DigitSet)) * PriceScale
    THEN 20
    ELSE 0

\* the boost the specification gives, for a lowercased query
ExpectedBoost(q, p) ==
    ExpectedPriceBoost(q, p)
        + 10 * Cardinality({i \in 1..Len(IntentsOf(p)) :
                              IsSubstring(Replace(IntentsOf(p)[i], "_", " "), q)})
        + 5 * Cardinality({i \in 1..Len(FeaturesOf(p)) :
                             IsSubstring(Replace(FeaturesOf(p)[i], "_", " "), q)})

\* the price-in-range note is due, for a lowercased query
PriceNoteDue(q, p) == IsSubstring("under", q) /\ PriceOf(p) < 50 * PriceScale

\* the reason the specification gives, for a lowercased query
ExpectedReason(q, p, sim) ==
    LET Named(f) == IsSubstring(Replace(f, "_", " "), q)
        named == SelectSeq(FeaturesOf(p), Named)
        parts ==
            (IF sim > 50 THEN <<"Strong semantic match">> ELSE <<>>)
                \o (IF PriceNoteDue(q, p)
                    THEN <<"Price in range ($"
                             \o Str(IF "price" \in DOMAIN p THEN p["price"] ELSE IntV(0))
                             \o ")">>
                    ELSE <<>>)
                \o [i \in 1..Len(named) |-> "Has " \o Replace(named[i], "_", " ")]
    IN  IF parts = <<>> THEN "Partial match" ELSE Join(parts, ". ")

\* the number of results that a stable descending sort puts before the i-th
RankOf(results, i) ==
    Cardinality({j \in 1..Len(results) :
                    \/ results[j].score > results[i].score
                    \/ results[j].score = results[i].score /\ j < i})

\* C15: match_query returns the first 3 (all, when there are fewer) of the
\* stable descending-score sort of one result per record: at most 3 results,
\* scores non-increasing, equal scores in input order, and an empty batch gives
\* an empty list.
C15_TopThreeStable ==
    \A k \in 1..Len(query_results) :
        LET got == query_results[k]
            all == ScoredResults(queries[k], products, similarity)
            n == IF Len(all) < 3 THEN Len(all) ELSE 3
        IN  /\ Len(got) <= 3
            /\ \A m \in 1..(Len(got) - 1) : got[m].score >= got[m + 1].score
            /\ products = <<>> => got = <<>>
            /\ got = [m \in 1..n |-> all[CHOOSE i \in 1..Len(all) : RankOf(all, i) = m - 1]]

\* four records with scores 80, 80, 80 and 81: the last comes first, the
\* first two follow in input order and the third is cut
C15_Witness ==
    /\ pc = "matched"
    /\ Len(products) = 4
    /\ [i \in 1..4 |-> IdOf(products[i])] = <<StrV("p2"), StrV("p3"), StrV("p1"), StrV("p3")>>
    /\ similarity = <<50, 50, 60, 51>>
    /\ [m \in 1..Len(query_results[1]) |->
          <<query_results[1][m].product_id, query_results[1][m].score>>]
          = << <<StrV("p3"), 81>>, <<StrV("p2"), 80>>, <<StrV("p3"), 80>> >>

\* C16: the score of a result is the similarity of its record plus the boost:
\* 0.2 iff the lowercased query holds "under" or "below" and a digit and the
\* price is <= the first digit run, 0.1 for each intent and 0.05 for each
\* feature whose rendering with spaces is in the lowercased query; no cap.
C16_ScoreIsSimilarityPlusBoost ==
    \A k \in 1..Len(query_results) : \A m \in 1..Len(query_results[k]) :
        \E i \in 1..Len(products) :
            /\ query_results[k][m].product_id = IdOf(products[i])
            /\ query_results[k][m].score
                  = SimilarityOf(products[i], similarity[i])
                      + ExpectedBoost(Lower(queries[k]), products[i])

\* the price boost, two intents and no feature: 0.51 + 0.2 + 0.1 + 0.1
C16_Witness ==
    /\ pc = "matched"
    /\ queries = <<"casual comfort under 30">>
    /\ Len(products) = 1
    /\ products[1]["price"] = Hundredths(2500)
    /\ similarity = <<51>>
    /\ query_results[1][1].score = 91

\* C17: the reason of a result is non-empty: the ". "-join of "Strong semantic
\* match" (iff similarity > 0.5), the price-in-range note (iff the lowercased
\* query holds "under" and the price is < 50) and "Has <feature>" for each
\* feature named in the query, in this order, or "Partial match" when none
\* applies.
C17_Reason ==
    \A k \in 1..Len(query_results) : \A m \in 1..Len(query_results[k]) :
        /\ query_results[k][m].reason # ""
        /\ \E i \in 1..Len(products) :
              /\ query_results[k][m].product_id = IdOf(products[i])
              /\ query_results[k][m].score
                    = SimilarityOf(products[i], similarity[i])
                        + ExpectedBoost(Lower(queries[k]), products[i])
              /\ query_results[k][m].reason
                    = ExpectedReason(Lower(queries[k]), products[i],
                                     SimilarityOf(products[i], similarity[i]))

\* all three kinds of reason in one result
C17_Witness ==
    /\ pc = "matched"
    /\ queries = <<"slim fit under ">>
    /\ similarity = <<51>>
    /\ query_results[1][1].reason
          = "Strong semantic match. Price in range ($25.0). Has slim fit"

\* C18: the price boost and the price note are decided apart: a result has
\* the 0.2 boost iff the boost's own test holds and the note iff the note's
\* own test holds, so that either can occur without the other.
C18_BoostAndNoteIndependent ==
    \A k \in 1..Len(query_results) : \A m \in 1..Len(query_results[k]) :
        \E i \in 1..Len(products) :
            LET q == Lower(queries[k])
                p == products[i]
                result == query_results[k][m]
                rest == SimilarityOf(p, similarity[i]) + ExpectedBoost(q, p)
                            - ExpectedPriceBoost(q, p)
            IN  /\ result.product_id = IdOf(p)
                /\ result.score - rest \in {0, 20}
                /\ (result.score - rest = 20) <=> (ExpectedPriceBoost(q, p) = 20)
                /\ IsSubstring("Price in range", result.reason) <=> PriceNoteDue(q, p)

\* one record of price 25.0: "below 50" boosts it without a note, and
\* "under 20" notes it without a boost
C18_Witness ==
    /\ pc = "matched"
    /\ queries = <<"below 50", "under 20">>
    /\ Len(products) = 1
    /\ products[1]["price"] = Hundredths(2500)
    /\ query_results[1][1].score = 50 + 20
    /\ query_results[1][1].reason = "Partial match"
    /\ query_results[2][1].score = 50
    /\ query_results[2][1].reason = "Price in range ($25.0)"

\* C20: a run of the orchestrator that has raised has created none of its
\* output files.
C20_NoPartialPersistence == pc = "raised" => files = {}

\* the text to embed for a record as the specification gives it
ExpectedProductText(p) ==
    LET content == IF "ai_optimized_content" \in DOMAIN p
                   THEN Str(p["ai_optimized_content"])
                   ELSE Str(Get(p, "title", StrV("")))
        parts == <<content, Join(IntentsOf(p), " "), Join(FeaturesOf(p), " ")>>
        NonEmpty(c) == c # ""
    IN  Join(SelectSeq(parts, NonEmpty), " ")

\* C21: the text embedded for a record is the space-join of the non-empty
\* parts among its ai_optimized_content (its title when that is absent), its
\* intents joined by spaces and its features joined by spaces: after the
\* first query over a batch, the texts encoded after the query are these.
C21_EmbeddedText ==
    Len(query_results) = 1 /\ products # <<>> =>
        LET NotBlank(text) == Strip(text) # ""
        IN  Tail(encoded)
              = SelectSeq([i \in 1..Len(products) |-> ExpectedProductText(products[i])],
                          NotBlank)

\* C22: encode is never called with an empty or whitespace-only text, and a
\* record whose text is blank scores similarity 0.0 with no encode call for it.
C22_NoBlankEncode ==
    /\ \A k \in 1..Len(encoded) : Strip(encoded[k]) # ""
    /\ Len(query_results) = 1 /\ Len(products) = 1
          /\ Strip(_create_product_text(products[1])) = ""
          => /\ Len(encoded) <= 1
             /\ query_results[1][1].score = ExpectedBoost(Lower(queries[1]), products[1])

\* the variants of a status, without their spaces
VariantKeys(status) ==
    UNION {{Replace(AVAILABILITY_MAPPINGS[i].variations[j], " ", "") :
                j \in 1..Len(AVAILABILITY_MAPPINGS[i].variations)} :
           i \in {k \in 1..Len(AVAILABILITY_MAPPINGS) : AVAILABILITY_MAPPINGS[k].status = status}}

\* C25: a raw availability that equals, ignoring case and spaces, a variant of
\* out_of_stock normalizes to out_of_stock, and one that equals a variant of
\* in_stock normalizes to in_stock.
C25_VariantsKeepTheirStatus ==
    /\ pc = "normalized"
    /\ "availability" \in DOMAIN raw
    /\ raw["availability"].kind = "str"
    /\ "availability" \in DOMAIN product
    => \A status \in {"in_stock", "out_of_stock"} :
          Replace(Strip(Lower(raw["availability"].s)), " ", "") \in VariantKeys(status)
              => product["availability"] = StrV(status)

\* the targets of the edges of a type that leave a node, in order
TargetsFrom(edges, type, source) ==
    LET Mine(e) == e.type = type /\ e.source = source
        mine == SelectSeq(edges, Mine)
    IN  [k \in 1..Len(mine) |-> mine[k].target]

\* C26: for every key of graph.products, the targets of its serves_intent edges
\* are, in order, the intents stored in its node, and it has at most one
\* belongs_to edge, whose target is the category stored in its node.
C26_ConsistentPerId ==
    pc = "graph_built" =>
        \A id \in DOMAIN graph.products :
            LET node == graph.products[id]
                served == TargetsFrom(graph.relationships, "serves_intent", id)
                owners == TargetsFrom(graph.relationships, "belongs_to", id)
            IN  /\ served = [k \in 1..Len(node.intents.items) |-> StrV(node.intents.items[k])]
                /\ Len(owners) <= 1
                /\ \A k \in 1..Len(owners) : owners[k] = node.category

\* C23: every record process_pipeline has enriched is the record the
\* components give for the same raw record: the same intents in the same
\* order, the same features, the same optimized title and description.
C23_SameAsComponents ==
    \A i \in 1..Len(enriched_products) :
        \A k \in {"intents", "features", "ai_optimized_title", "ai_optimized_description"} :
            enriched_products[i][k] = Enrich(products[i])[k]

\* C24: build_knowledge_graph of the orchestrator does not raise and gives the
\* graph KnowledgeGraphBuilder.build_graph gives for the same records.
C24_SameGraph ==
    /\ pc = "enriching" /\ Len(enriched_products) = Len(products)
          => AIProductPipeline_build_knowledge_graph(Take(enriched_products, 3)).ok
    /\ pc = "pipeline_graph_built" => graph = build_graph(Take(enriched_products, 3))

====
